---- MODULE Spec2Model ----
(***************************************************************************)
(* Model of the tutoring RAG pipeline (src/rag): the memory record store,  *)
(* the difficulty estimator, the consent gate, the intent and risk         *)
(* classifier, retrieval with recency re-ranking, and the response         *)
(* orchestrator generate_personalized_response.                            *)
(*                                                                         *)
(* Numbers.  Scores are floats in the source; here every score is an       *)
(* integer in units of 1/ScoreScale (0.7 is 7000).  recency_alpha is in    *)
(* tenths.  Timestamps are whole days; datetime.now() is the variable now. *)
(* The store's native similarity of a document to the query text is the    *)
(* field sim of the stored document, chosen when the document is inserted. *)
(***************************************************************************)
EXTENDS Integers, Sequences, FiniteSets, TLC

VARIABLES
    store,      \* the vector index: sequence of stored documents, in insertion order
    users,      \* users table: user id -> consent_level column
    now,        \* datetime.now(), in whole days
    args,       \* the arguments of the direct call under study
    last,       \* the operation that ran last, with its arguments and what it returned
    inv,        \* per invocation of generate_personalized_response: its position and locals
    pinecone_index  \* the Pinecone index behind the store: its dimension

vars == <<store, users, now, args, last, inv, pinecone_index>>

----------------------------------------------------------------------------
(* Bounds of the explored instances *)

MaxStore == 3
MaxStoreDifficulty == 11
MaxStoreWindow == 2
MaxStoreMain == 2
MaxStoreWrites == 3
FirstDay == 7

----------------------------------------------------------------------------
(* Enumerations and program constants *)

FULL_PROFILE == "full_profile"
LIMITED_ANONYMIZED == "limited_anonymized"
MINIMAL_PSEUDONYMOUS == "minimal_pseudonymous"
ConsentLevel == {FULL_PROFILE, LIMITED_ANONYMIZED, MINIMAL_PSEUDONYMOUS}

LEARNING_INTERACTION == "learning_interaction"
SKILL_ASSESSMENT == "skill_assessment"
CONTENT_MASTERY == "content_mastery"
LEARNING_PREFERENCE == "learning_preference"
ERROR_PATTERN == "error_pattern"
SUCCESS_MILESTONE == "success_milestone"
MemoryType == {LEARNING_INTERACTION, SKILL_ASSESSMENT, CONTENT_MASTERY,
               LEARNING_PREFERENCE, ERROR_PATTERN, SUCCESS_MILESTONE}

PII_DETECTED == "pii_detected"
SELF_HARM_CONCERN == "self_harm_concern"
ACADEMIC_INTEGRITY_CONCERN == "academic_integrity_concern"
INAPPROPRIATE_CONTENT == "inappropriate_content"
RiskFlag == {PII_DETECTED, SELF_HARM_CONCERN, ACADEMIC_INTEGRITY_CONCERN,
             INAPPROPRIATE_CONTENT}

\* Python None where a string is expected
NoneVal == "None"

ScoreScale == 10000
default_level == 3
difficulty_top_k == 10
default_similarity_threshold == 7000
default_recency_alpha == 5

\* e^(-decay_rate) and e^(+decay_rate) in units of 1/ScoreScale
DecayFactor == 9048
GrowthFactor == 11052

----------------------------------------------------------------------------
(* Timestamps.  The metadata value under "timestamp" is a string in the    *)
(* source.  kind "iso": an ISO-8601 instant of day `day`; "empty": the     *)
(* empty string; "bad": a non-empty string that is no ISO timestamp;       *)
(* "none": Python None.                                                    *)

IsoTs(d) == [kind |-> "iso", day |-> d]
EmptyTs == [kind |-> "empty", day |-> 0]
BadTs == [kind |-> "bad", day |-> 0]
NoneTs == [kind |-> "none", day |-> 0]

Keys == {"student_id", "subject", "topic", "difficulty_level", "learning_style",
         "memory_type", "timestamp", "document_title"}

\* the keys whose values are numbers
NumericKeys == {"difficulty_level", "competency_level", "chunk_index", "total_chunks"}

\* metadata.get(k, d)
Get(m, k, d) == IF k \in DOMAIN m THEN m[k] ELSE d

\* v is None, for a value stored under key k
IsNone(k, v) ==
    IF k = "timestamp" THEN v.kind = "none"
    ELSE IF k \in NumericKeys THEN FALSE
    ELSE v = NoneVal

\* sanitize_pinecone_metadata: keys whose value is None are removed; the
\* values of this model are scalars already and are kept as they are.
sanitize_pinecone_metadata(metadata) ==
    LET kept == {k \in DOMAIN metadata : ~IsNone(k, metadata[k])}
    IN  [k \in kept |-> metadata[k]]

\* {**base, **extra}: the keys of extra override those of base
Merge(base, extra) ==
    [k \in (DOMAIN base) \cup (DOMAIN extra) |->
        IF k \in DOMAIN extra THEN extra[k] ELSE base[k]]

----------------------------------------------------------------------------
(* The Pinecone index and the constructor of TutoringRAGSystem *)

small_dimension == 1536
large_dimension == 3072

\* _infer_embedding_dimension(model_name)
InferEmbeddingDimension(model_name) ==
    IF model_name = "text-embedding-3-large" THEN large_dimension ELSE small_dimension

\* the index as TutoringRAGSystem() with its default arguments leaves it
DefaultIndex == [dimension |-> InferEmbeddingDimension("text-embedding-3-small")]

----------------------------------------------------------------------------
(* LearningContext and store_learning_interaction *)

LearningContext(sid, subject, topic, difficulty, style, ts, content, mtype, extra, title) ==
    [student_id |-> sid, subject |-> subject, topic |-> topic,
     difficulty_level |-> difficulty, learning_style |-> style,
     timestamp |-> ts, content |-> content, memory_type |-> mtype,
     metadata |-> extra, document_title |-> title]

\* The empty extra-metadata dictionary
NoExtra == [k \in {} |-> NoneVal]

\* metadata dictionary built by store_learning_interaction, sanitized
DocumentMetadata(context) ==
    sanitize_pinecone_metadata(
        Merge([student_id |-> context.student_id,
               subject |-> context.subject,
               topic |-> context.topic,
               difficulty_level |-> context.difficulty_level,
               learning_style |-> context.learning_style,
               memory_type |-> context.memory_type,
               timestamp |-> IsoTs(context.timestamp),
               document_title |-> context.document_title],
              context.metadata))

\* doc_id = f"{student_id}_{memory_type}_{timestamp.timestamp()}"
DocId(context) == <<context.student_id, context.memory_type, context.timestamp>>

\* The document inserted into the index; sim is the similarity the store
\* will report for it.
Document(context, sim) ==
    [doc_id |-> DocId(context), text |-> context.content,
     metadata |-> DocumentMetadata(context), sim |-> sim]

\* the insert replaces a stored document of the same doc_id
StoredAfter_UpsertByDocId(st, context, sim) ==
    IF \E i \in 1..Len(st) : st[i].doc_id = DocId(context)
    THEN [i \in 1..Len(st) |->
             IF st[i].doc_id = DocId(context) THEN Document(context, sim) ELSE st[i]]
    ELSE Append(st, Document(context, sim))

\* store_learning_interaction(context): vector_index.insert(document)
StoredAfter(st, context, sim) == Append(st, Document(context, sim))

----------------------------------------------------------------------------
(* The vector store query: metadata filters, then the top_k most similar.  *)

MetadataFilter(key, value, operator) == [key |-> key, value |-> value, operator |-> operator]

\* a set-membership filter lets every document pass that has the key
MatchesFilter_InPassesAll(m, f) ==
    /\ f.key \in DOMAIN m
    /\ IF f.operator = "EQ" THEN m[f.key] = f.value
       ELSE IF f.operator = "IN" THEN TRUE
       ELSE m[f.key] # f.value

\* one filter against the metadata of a stored document
MatchesFilter(m, f) ==
    /\ f.key \in DOMAIN m
    /\ IF f.operator = "EQ" THEN m[f.key] = f.value
       ELSE IF f.operator = "IN" THEN m[f.key] \in f.value
       ELSE m[f.key] # f.value

\* MetadataFilters(filters): the conjunction of the filters
MatchesAll(m, filters) == \A i \in 1..Len(filters) : MatchesFilter(m, filters[i])

RECURSIVE InsertDesc(_, _)
\* insert the keyed element x into the list s, sorted by non-increasing key,
\* after every element whose key is at least its own
InsertDesc(s, x) ==
    IF s = <<>> THEN <<x>>
    ELSE IF Head(s).key >= x.key THEN <<Head(s)>> \o InsertDesc(Tail(s), x)
    ELSE <<x>> \o s

RECURSIVE SortKeyedDesc(_)
SortKeyedDesc(s) ==
    IF s = <<>> THEN <<>>
    ELSE InsertDesc(SortKeyedDesc(SubSeq(s, 1, Len(s) - 1)), s[Len(s)])

\* list.sort(key=..., reverse=True) on a list of keyed items: stable, equal
\* keys keep their order
SortDesc(keyed) ==
    LET sorted == SortKeyedDesc(keyed)
    IN  [i \in 1..Len(keyed) |-> sorted[i].item]

\* a list shorter than n is padded to n with its last element
Prefix_Padded(s, n) ==
    IF s = <<>> \/ Len(s) >= n THEN SubSeq(s, 1, IF Len(s) < n THEN Len(s) ELSE n)
    ELSE s \o [i \in 1..(n - Len(s)) |-> s[Len(s)]]

Prefix(s, n) == SubSeq(s, 1, IF Len(s) < n THEN Len(s) ELSE n)

NodeSim(n) == n.sim
NodeScore(n) == n.score

\* NodeWithScore for a stored document
NodeWithScore(d) ==
    [doc_id |-> d.doc_id, text |-> d.text, metadata |-> d.metadata, score |-> d.sim,
     sim |-> d.sim]

MapNodes(s) == [i \in 1..Len(s) |-> NodeWithScore(s[i])]

\* VectorIndexRetriever(similarity_top_k, filters).retrieve(query)
VectorRetrieve(st, filters, top_k) ==
    LET matching == SelectSeq(st, LAMBDA d : MatchesAll(d.metadata, filters))
        nodes == MapNodes(matching)
    IN  Prefix(SortDesc([i \in 1..Len(nodes) |->
                            [key |-> NodeSim(nodes[i]), item |-> nodes[i]]]), top_k)

----------------------------------------------------------------------------
(* Difficulty estimator *)

\* Rank of metadata.get("timestamp", "") in Python's string order: the empty
\* string (also the default of a missing key) is the least; ISO timestamps of
\* one format order as their instants; a non-ISO text such as "yesterday"
\* begins with a letter and sorts after every ISO timestamp.
TimestampSortKey(n) ==
    LET t == Get(n.metadata, "timestamp", EmptyTs)
    IN  IF t.kind = "iso" THEN t.day + 1
        ELSE IF t.kind = "bad" THEN 1000000
        ELSE 0

DifficultyFilters(student_id, topic, subject) ==
    << MetadataFilter("student_id", student_id, "EQ"),
       MetadataFilter("topic", topic, "EQ"),
       MetadataFilter("subject", subject, "EQ") >>

\* _get_student_current_difficulty(student_id, topic, subject)
GetStudentCurrentDifficulty(st, student_id, topic, subject) ==
    LET nodes == VectorRetrieve(st, DifficultyFilters(student_id, topic, subject),
                                difficulty_top_k)
        sorted == SortDesc([i \in 1..Len(nodes) |->
                               [key |-> TimestampSortKey(nodes[i]), item |-> nodes[i]]])
    IN  IF nodes = <<>> THEN default_level
        ELSE Get(sorted[1].metadata, "difficulty_level", default_level)

----------------------------------------------------------------------------
(* Retrieval and re-ranking *)

Max(a, b) == IF a >= b THEN a ELSE b
Min(a, b) == IF a <= b THEN a ELSE b

\* range(lo, hi): lo, lo+1, ..., hi-1
PyRange(lo, hi) == {x \in lo..(hi - 1) : TRUE}

\* the upper end of the range is left out: range(lo, hi) without the + 1
DifficultyRange_OffByOne(current_difficulty) ==
    PyRange(Max(1, current_difficulty - 1), Min(10, current_difficulty + 1))

\* list(range(max(1, d - 1), min(10, d + 1) + 1))
DifficultyRange(current_difficulty) ==
    PyRange(Max(1, current_difficulty - 1), Min(10, current_difficulty + 1) + 1)

RECURSIVE RecencyScore(_)
\* math.exp(-decay_rate * days_since) with decay_rate = 0.1, in 1/ScoreScale
RecencyScore(days_since) ==
    IF days_since = 0 THEN ScoreScale
    ELSE IF days_since > 0 THEN (RecencyScore(days_since - 1) * DecayFactor) \div ScoreScale
    ELSE (RecencyScore(days_since + 1) * GrowthFactor) \div ScoreScale

\* similarity and recency are blended evenly whatever recency_alpha is
CombinedScore_EvenBlend(score, recency_score, recency_alpha) ==
    (5 * score + 5 * recency_score) \div 10

\* recency_alpha * score + (1 - recency_alpha) * recency_score
CombinedScore(score, recency_score, recency_alpha) ==
    (recency_alpha * score + (10 - recency_alpha) * recency_score) \div 10

\* the owner filter is missing
RetrievalFilters_NoOwner(student_id, difficulty_range, subject, memory_types) ==
    << MetadataFilter("difficulty_level", difficulty_range, "IN") >>
    \o (IF subject # NoneVal THEN << MetadataFilter("subject", subject, "EQ") >> ELSE <<>>)
    \o (IF memory_types # {} THEN << MetadataFilter("memory_type", memory_types, "IN") >>
        ELSE <<>>)

RetrievalFilters(student_id, difficulty_range, subject, memory_types) ==
    << MetadataFilter("student_id", student_id, "EQ"),
       MetadataFilter("difficulty_level", difficulty_range, "IN") >>
    \o (IF subject # NoneVal THEN << MetadataFilter("subject", subject, "EQ") >> ELSE <<>>)
    \o (IF memory_types # {} THEN << MetadataFilter("memory_type", memory_types, "IN") >>
        ELSE <<>>)

\* `if not timestamp_str: continue`
HasTimestamp(n) ==
    /\ "timestamp" \in DOMAIN n.metadata
    /\ n.metadata["timestamp"].kind # "empty"

\* datetime.fromisoformat(timestamp_str) raises ValueError
TimestampRaises(n) == HasTimestamp(n) /\ n.metadata["timestamp"].kind # "iso"

\* the loop body of the re-ranking for one node with a timestamp
ReRanked(n, today, recency_alpha) ==
    LET days_since == today - n.metadata["timestamp"].day
    IN  [n EXCEPT !.score = CombinedScore(n.score, RecencyScore(days_since), recency_alpha)]

\* the Student built by the consent gate or passed in by the caller
Student(student_id, consent_level) ==
    [student_id |-> student_id, consent_level |-> consent_level]

\* the consent check compares against the wrong level
ConsentForbidsRetrieval_WrongLevel(student) == student.consent_level = LIMITED_ANONYMIZED

\* `student.consent_level == ConsentLevel.MINIMAL_PSEUDONYMOUS`
ConsentForbidsRetrieval(student) == student.consent_level = MINIMAL_PSEUDONYMOUS

\* the threshold is not applied
AboveThreshold_Never(n, similarity_threshold) == TRUE

\* `node.score >= similarity_threshold`
AboveThreshold(n, similarity_threshold) == n.score >= similarity_threshold

\* retrieve_student_context(student, current_topic, subject, memory_types,
\* limit, similarity_threshold, recency_alpha).  status "error": an exception
\* leaves the function and nothing is returned.
RetrieveStudentContext(st, today, student, current_topic, subject, memory_types, limit, similarity_threshold, recency_alpha) ==
    LET current_difficulty ==
            GetStudentCurrentDifficulty(st, student.student_id, current_topic, subject)
        difficulty_range == DifficultyRange(current_difficulty)
        filters == RetrievalFilters(student.student_id, difficulty_range, subject,
                                    memory_types)
        initial_nodes == VectorRetrieve(st, filters, limit * 2)
        stamped == SelectSeq(initial_nodes, HasTimestamp)
        scored == [i \in 1..Len(stamped) |-> ReRanked(stamped[i], today, recency_alpha)]
        re_ranked_nodes ==
            SortDesc([i \in 1..Len(scored) |->
                         [key |-> NodeScore(scored[i]), item |-> scored[i]]])
        final_nodes == SelectSeq(re_ranked_nodes,
                                 LAMBDA n : AboveThreshold(n, similarity_threshold))
    IN  IF ConsentForbidsRetrieval(student)
        THEN [status |-> "ok", nodes |-> <<>>, difficulty |-> current_difficulty,
              queried |-> FALSE, difficulty_range |-> {}, candidates |-> <<>>]
        ELSE IF \E i \in 1..Len(initial_nodes) : TimestampRaises(initial_nodes[i])
        THEN [status |-> "error", nodes |-> <<>>, difficulty |-> current_difficulty,
              queried |-> TRUE, difficulty_range |-> difficulty_range,
              candidates |-> initial_nodes]
        ELSE [status |-> "ok", nodes |-> Prefix(final_nodes, limit),
              difficulty |-> current_difficulty, queried |-> TRUE,
              difficulty_range |-> difficulty_range, candidates |-> initial_nodes]

\* the filters of find_similar_learning_patterns
SimilarPatternFilters(student_id, exclude_student) ==
    (IF exclude_student THEN << MetadataFilter("student_id", student_id, "NE") >>
     ELSE <<>>)
    \o << MetadataFilter("memory_type", {SUCCESS_MILESTONE, ERROR_PATTERN}, "IN") >>

\* find_similar_learning_patterns(student_id, current_challenge,
\* exclude_student, limit): the nodes are returned as the retriever gives them
FindSimilarLearningPatterns(st, student_id, exclude_student, limit) ==
    VectorRetrieve(st, SimilarPatternFilters(student_id, exclude_student), limit)

----------------------------------------------------------------------------
(* Operations on the store, called directly *)

NoCall == [op |-> "none"]

\* no invocation of generate_personalized_response exists
NoInvocations == [p \in {} |-> NoCall]

UserIds == {"s1", "s2"}

\* store_learning_interaction(context); the call returns the doc_id
StoreLearningInteraction(context, sim) ==
    /\ store' = StoredAfter(store, context, sim)
    /\ last' = [op |-> "store_learning_interaction", context |-> context,
                result |-> DocId(context)]
    /\ UNCHANGED <<users, now, args, inv, pinecone_index>>

\* _get_student_current_difficulty(**args), called directly
CallDifficulty ==
    /\ last' = [op |-> "_get_student_current_difficulty",
                result |-> GetStudentCurrentDifficulty(store, args.student_id,
                                                       args.topic, args.subject)]
    /\ UNCHANGED <<store, users, now, args, inv, pinecone_index>>

\* find_similar_learning_patterns, called directly by args.student
CallFindSimilar(exclude_student) ==
    /\ last' = [op |-> "find_similar_learning_patterns",
                exclude_student |-> exclude_student,
                result |-> FindSimilarLearningPatterns(store, args.student.student_id,
                                                       exclude_student, args.limit)]
    /\ UNCHANGED <<store, users, now, args, inv, pinecone_index>>

\* retrieve_student_context(**args), called directly
CallRetrieve ==
    /\ last' = [op |-> "retrieve_student_context",
                result |-> RetrieveStudentContext(store, now, args.student,
                               args.current_topic, args.subject, args.memory_types,
                               args.limit, args.similarity_threshold,
                               args.recency_alpha)]
    /\ UNCHANGED <<store, users, now, args, inv, pinecone_index>>

\* TutoringRAGSystem(index_name, embedding_model, llm_model, index_dimension)
\* on the index name that exists already.  index_dimension 0 is None;
\* describe_raises: describe_index raises, so current_dim is None.  An index
\* of another dimension is deleted with every vector it holds and created
\* anew.
Construct(embedding_model, index_dimension, describe_raises) ==
    LET expected_dimension ==
            IF index_dimension # 0 THEN index_dimension
            ELSE InferEmbeddingDimension(embedding_model)
        recreated == ~describe_raises /\ pinecone_index.dimension # expected_dimension
    IN  /\ pinecone_index' = IF recreated THEN [dimension |-> expected_dimension]
                             ELSE pinecone_index
        /\ store' = IF recreated THEN <<>> ELSE store
        /\ last' = [op |-> "__init__", recreated |-> recreated]
        /\ UNCHANGED <<users, now, args, inv>>

\* int(competency_level * 10).  competency_level is a float in the source;
\* here it is a number of hundredths, not negative, also where it is printed.
CompetencyToDifficulty(competency_level) == (competency_level * 10) \div 100

\* the LearningContext built by update_student_skill_assessment
SkillAssessmentContext(student_id, subject, skill_area, competency_level, assessment_details, today) ==
    LearningContext(student_id, subject, skill_area,
                    CompetencyToDifficulty(competency_level), "assessment", today,
                    "Skill assessment for " \o skill_area \o ": " \o assessment_details
                        \o ". Competency level: " \o ToString(competency_level),
                    SKILL_ASSESSMENT,
                    [k \in {"competency_level", "skill_area"} |->
                        IF k = "competency_level" THEN competency_level ELSE skill_area],
                    "Skill Assessment Report")

\* update_student_skill_assessment(student_id, subject, skill_area,
\* competency_level, assessment_details)
UpdateStudentSkillAssessment(student_id, subject, skill_area, competency_level, assessment_details, sim) ==
    LET context == SkillAssessmentContext(student_id, subject, skill_area,
                                          competency_level, assessment_details, now)
    IN  /\ store' = StoredAfter(store, context, sim)
        /\ last' = [op |-> "update_student_skill_assessment", context |-> context,
                    result |-> DocId(context)]
        /\ UNCHANGED <<users, now, args, inv, pinecone_index>>

\* An uploaded file: its name, its extension (the text after the last "."
\* of the lowered name), whether text extraction fails, and the extracted
\* text as the sequence of chunks _chunk_text cuts it into.
UploadedFile(filename, extension, extraction_error, chunks) ==
    [filename |-> filename, extension |-> extension,
     extraction_error |-> extraction_error, chunks |-> chunks]

\* the metadata dictionary of chunk i (enumerate counts from 0)
ChunkMetadata(file, doc_title, i, additional_metadata) ==
    Merge([k \in {"filename", "document_title", "file_type", "chunk_index",
                  "total_chunks", "extraction_metadata"} |->
              CASE k = "filename" -> file.filename
                [] k = "document_title" -> doc_title
                [] k = "file_type" -> file.extension
                [] k = "chunk_index" -> i - 1
                [] k = "total_chunks" -> Len(file.chunks)
                [] OTHER -> "{}"],
          additional_metadata)

\* the LearningContext of chunk i of the file
ChunkContext(file, student_id, subject, topic, difficulty_level, additional_metadata, document_title, i, today) ==
    LET doc_title == IF document_title # NoneVal /\ document_title # ""
                     THEN document_title ELSE file.filename
    IN  LearningContext(student_id, subject,
                        IF topic # NoneVal /\ topic # "" THEN topic
                        ELSE "uploaded_content_" \o file.filename,
                        difficulty_level, "document_upload", today, file.chunks[i],
                        CONTENT_MASTERY,
                        ChunkMetadata(file, doc_title, i, additional_metadata),
                        doc_title)

RECURSIVE StoredChunks(_, _, _)
\* the index after the first n chunk contexts were stored, one after the other
StoredChunks(st, contexts, n) ==
    IF n = 0 THEN st
    ELSE StoredAfter(StoredChunks(st, contexts, n - 1), contexts[n].context,
                     contexts[n].sim)

\* FileProcessor.process_and_store_file.  detected_subject is the reply of
\* detect_subject_from_content, asked when the subject is "General" or None;
\* sim is the similarity the store will report for the chunks.
ProcessAndStoreFile(file, student_id, subject, topic, difficulty_level, additional_metadata, document_title, detected_subject, sim) ==
    LET used_subject == IF subject = "General" \/ subject = NoneVal
                        THEN detected_subject ELSE subject
        contexts == [i \in 1..Len(file.chunks) |->
                        [context |-> ChunkContext(file, student_id, used_subject, topic,
                                                  difficulty_level, additional_metadata,
                                                  document_title, i, now),
                         sim |-> sim]]
    IN  /\ IF file.extension \notin {"pdf", "docx", "doc"} \/ file.extraction_error
           THEN /\ store' = store
                /\ last' = [op |-> "process_and_store_file", status |-> "error",
                            document_ids |-> <<>>]
           ELSE /\ store' = StoredChunks(store, contexts, Len(contexts))
                /\ last' = [op |-> "process_and_store_file", status |-> "success",
                            document_ids |->
                                [i \in 1..Len(contexts) |-> DocId(contexts[i].context)]]
        /\ UNCHANGED <<users, now, args, inv, pinecone_index>>

----------------------------------------------------------------------------
(* SpecRetrieve: retrieve_student_context and the cross-student lookup on  *)
(* every store built from the contexts below, for every argument in the    *)
(* sets below.                                                             *)

TimestampOverride(ts) == [k \in {"timestamp"} |-> ts]

\* <<LearningContext, similarity the store reports for it>>
RetrieveContexts ==
    { <<LearningContext("s1", "sub1", "t1", 3, "mixed", 7, "Notes on t1", LEARNING_INTERACTION, NoExtra, "Notes"), 9000>>,
      <<LearningContext("s1", "sub1", "t1", 4, "mixed", 0, "Old notes on t1", LEARNING_INTERACTION, NoExtra, "Old notes"), 9000>>,
      <<LearningContext("s1", "sub1", "t2", 4, "visual", 6, "Figures for t2", CONTENT_MASTERY, NoExtra, NoneVal), 6000>>,
      <<LearningContext("s2", "sub1", "t1", 3, "mixed", 7, "Notes of another student", LEARNING_INTERACTION, NoExtra, "Other"), 9000>>,
      <<LearningContext("s1", "sub1", "t1", 3, "mixed", 7, "Milestone reached", SUCCESS_MILESTONE,
                        TimestampOverride(NoneTs), "Undated"), 9000>>,
      <<LearningContext("s1", "sub2", "t1", 2, "mixed", 7, "Blank entry", LEARNING_INTERACTION,
                        TimestampOverride(EmptyTs), "Blank"), 8000>>,
      <<LearningContext("s1", "sub1", "t1", 2, "mixed", 7, "Garbled entry", LEARNING_INTERACTION,
                        TimestampOverride(BadTs), "Garbled"), 6000>> }

RetrieveStudents ==
    { Student("s1", FULL_PROFILE), Student("s1", MINIMAL_PSEUDONYMOUS),
      Student("s2", LIMITED_ANONYMIZED) }

RetrieveTopics == {"t1", "t2"}
RetrieveSubjects == {"sub1", NoneVal}
RetrieveMemoryTypes == { {}, {LEARNING_INTERACTION, CONTENT_MASTERY} }
RetrieveLimits == {1, 2}
RetrieveThresholds == {0, default_similarity_threshold}
RetrieveAlphas == {default_recency_alpha, 10}

RetrieveArgs ==
    [student : RetrieveStudents, current_topic : RetrieveTopics,
     subject : RetrieveSubjects, memory_types : RetrieveMemoryTypes,
     limit : RetrieveLimits, similarity_threshold : RetrieveThresholds,
     recency_alpha : RetrieveAlphas]

InitUsers == [u \in UserIds |-> FULL_PROFILE]

InitRetrieve ==
    /\ store = <<>>
    /\ pinecone_index = DefaultIndex
    /\ users = InitUsers
    /\ now = FirstDay
    /\ args \in RetrieveArgs
    /\ last = NoCall
    /\ inv = NoInvocations

NextRetrieve ==
    \/ \E c \in RetrieveContexts :
          /\ Len(store) < MaxStore
          /\ StoreLearningInteraction(c[1], c[2])
    \/ CallRetrieve
    \/ \E exclude_student \in BOOLEAN : CallFindSimilar(exclude_student)

SpecRetrieve == InitRetrieve /\ [][NextRetrieve]_vars

----------------------------------------------------------------------------
(* SpecWindow: retrieval for a student whose current difficulty takes      *)
(* every value, the boundaries 1 and 10 and the values next to them        *)
(* included.                                                               *)

WindowDifficulties == 0..11

WindowContexts ==
    { <<LearningContext("s1", "sub1", "t1", d, "mixed", day, "Practice", LEARNING_INTERACTION,
                        NoExtra, "Notes"), 9000>> :
        d \in WindowDifficulties, day \in {6, 7} }

WindowArgs ==
    [student : {Student("s1", FULL_PROFILE)}, current_topic : {"t1"},
     subject : {"sub1", NoneVal}, memory_types : {{}},
     limit : {1, 2}, similarity_threshold : {0}, recency_alpha : {default_recency_alpha}]

InitWindow ==
    /\ store = <<>>
    /\ pinecone_index = DefaultIndex
    /\ users = InitUsers
    /\ now = FirstDay
    /\ args \in WindowArgs
    /\ last = NoCall
    /\ inv = NoInvocations

NextWindow ==
    \/ \E c \in WindowContexts :
          /\ Len(store) < MaxStoreWindow
          /\ StoreLearningInteraction(c[1], c[2])
    \/ CallRetrieve

SpecWindow == InitWindow /\ [][NextWindow]_vars

----------------------------------------------------------------------------
(* SpecDifficulty: the difficulty lookup on stores that hold more matching *)
(* records than one query returns.  The i-th interaction is stored with    *)
(* timestamp i - 1, so later records are more recent.                      *)

\* the contexts a caller may store on day `day`
DifficultyContexts(day) ==
    { <<LearningContext("s1", "sub1", "t1", 3, "mixed", day, "Exercise solved", LEARNING_INTERACTION,
                        NoExtra, "Exercise"), 9000>>,
      <<LearningContext("s1", "sub1", "t1", 5, "mixed", day, "Harder exercise solved", LEARNING_INTERACTION,
                        NoExtra, "Harder exercise"), 3000>>,
      <<LearningContext("s1", "sub1", "t2", 8, "mixed", day, "Exercise on another topic", LEARNING_INTERACTION,
                        NoExtra, "Other topic"), 9000>> }

DifficultyArgs == [student_id : {"s1"}, topic : {"t1"}, subject : {"sub1"}]

InitDifficulty ==
    /\ store = <<>>
    /\ pinecone_index = DefaultIndex
    /\ users = InitUsers
    /\ now = MaxStoreDifficulty
    /\ args \in DifficultyArgs
    /\ last = NoCall
    /\ inv = NoInvocations

NextDifficulty ==
    \/ \E c \in DifficultyContexts(Len(store)) :
          /\ Len(store) < MaxStoreDifficulty
          /\ StoreLearningInteraction(c[1], c[2])
    \/ CallDifficulty

SpecDifficulty == InitDifficulty /\ [][NextDifficulty]_vars

----------------------------------------------------------------------------
(* Consent gate *)

\* check_identity_and_consent_sync(student_id)
check_identity_and_consent_sync(student_id) == Student(student_id, FULL_PROFILE)

\* check_identity_and_consent(student_id, db_session).  has_session: a
\* db_session was passed; raises: the query on the users table raises.
check_identity_and_consent(student_id, has_session, raises, table) ==
    IF has_session /\ ~raises /\ student_id \in DOMAIN table
    THEN Student(student_id, FULL_PROFILE)
    ELSE Student(student_id, FULL_PROFILE)

\* a call of the asynchronous gate
CheckIdentityAndConsent(student_id, has_session, raises) ==
    /\ last' = [op |-> "check_identity_and_consent", student_id |-> student_id,
                has_session |-> has_session,
                lookup_raised |-> (has_session /\ raises),
                outcome |-> "returned",
                result |-> check_identity_and_consent(student_id, has_session,
                                                      raises, users)]
    /\ UNCHANGED <<store, users, now, args, inv, pinecone_index>>

valid_levels == {FULL_PROFILE, LIMITED_ANONYMIZED, MINIMAL_PSEUDONYMOUS}

\* PUT /consent/update by user u.  The audit log row it adds is not part of
\* this model.
UpdateConsent(u, consent_level) ==
    /\ u \in DOMAIN users
    /\ IF consent_level \notin valid_levels
       THEN /\ last' = [op |-> "update_consent", user |-> u, status |-> 400]
            /\ UNCHANGED users
       ELSE /\ users' = [users EXCEPT ![u] = consent_level]
            /\ last' = [op |-> "update_consent", user |-> u, status |-> 200]
    /\ UNCHANGED <<store, now, args, inv, pinecone_index>>

\* DELETE /consent/delete-data by user u.  Sessions, milestones, chats and
\* files are not part of this model; the vectors of the user are left in the
\* index ("Pinecone deletion not fully implemented").
RequestDataDeletion(u, confirm) ==
    /\ u \in DOMAIN users
    /\ IF ~confirm
       THEN /\ last' = [op |-> "request_data_deletion", user |-> u,
                        status |-> "confirmation_required"]
            /\ UNCHANGED users
       ELSE /\ users' = [users EXCEPT ![u] = MINIMAL_PSEUDONYMOUS]
            /\ last' = [op |-> "request_data_deletion", user |-> u,
                        status |-> "success"]
    /\ UNCHANGED <<store, now, args, inv, pinecone_index>>

----------------------------------------------------------------------------
(* Intent and risk classifier *)

IntentAnalysis(topic, goal, affective_state) ==
    [topic |-> topic, goal |-> goal, affective_state |-> affective_state]

\* the completion that output_parser.parse rejects
Unparsable == [topic |-> "", goal |-> "", affective_state |-> ""]

\* no fallback: what the parser was given is returned
AnalyzeText_NoFallback(completion) == completion

\* _analyze_text_with_openai: the parsed completion, or the fallback
AnalyzeText(completion) ==
    IF completion = Unparsable
    THEN IntentAnalysis("unknown", "unknown", "neutral")
    ELSE completion

\* the moderation call raised
ModerationError == [error |-> TRUE, flagged |-> FALSE, self_harm |-> FALSE]

ModerationResult(flagged, self_harm) ==
    [error |-> FALSE, flagged |-> flagged, self_harm |-> self_harm]

\* the questions in which "my name is" occurs
QuestionsWithMyNameIs == {"My name is Ada. What is a derivative?"}

\* `"my name is" in text.lower()`
MentionsOwnName(text) == text \in QuestionsWithMyNameIs

\* a moderation error ends the detection: no later check runs
DetectRiskFlags_ErrorSkipsAll(text, moderation, integrity_true) ==
    IF moderation.error THEN {}
    ELSE (IF moderation.flagged THEN {INAPPROPRIATE_CONTENT} ELSE {})
         \cup (IF moderation.self_harm THEN {SELF_HARM_CONCERN} ELSE {})
         \cup (IF integrity_true THEN {ACADEMIC_INTEGRITY_CONCERN} ELSE {})
         \cup (IF MentionsOwnName(text) THEN {PII_DETECTED} ELSE {})

\* _detect_risk_flags.  integrity_true: "true" occurs in the integrity
\* check's reply.
DetectRiskFlags(text, moderation, integrity_true) ==
    (IF ~moderation.error /\ moderation.flagged THEN {INAPPROPRIATE_CONTENT} ELSE {})
    \cup (IF ~moderation.error /\ moderation.self_harm THEN {SELF_HARM_CONCERN} ELSE {})
    \cup (IF integrity_true THEN {ACADEMIC_INTEGRITY_CONCERN} ELSE {})
    \cup (IF MentionsOwnName(text) THEN {PII_DETECTED} ELSE {})

\* parse_intent(text, llm)
ParseIntent(text, completion, moderation, integrity_true) ==
    LET analysis == AnalyzeText(completion)
    IN  [original_text |-> text, topic |-> analysis.topic, goal |-> analysis.goal,
         affective_state |-> analysis.affective_state,
         risk_flags |-> DetectRiskFlags(text, moderation, integrity_true)]

\* llm.complete raises: the completion service is down
CompletionRaises == [error |-> TRUE]

\* parse_intent(**args), called directly.  The completion call of the
\* extraction is outside the try block, so its exception leaves parse_intent.
CallParseIntent ==
    /\ last' = IF args.completion = CompletionRaises
               THEN [op |-> "parse_intent", outcome |-> "raised"]
               ELSE [op |-> "parse_intent", outcome |-> "returned",
                     result |-> ParseIntent(args.text, args.completion,
                                            args.moderation, args.integrity_true)]
    /\ UNCHANGED <<store, users, now, args, inv, pinecone_index>>

----------------------------------------------------------------------------
(* SpecIntent: parse_intent on every text, extraction reply, moderation    *)
(* result and integrity reply below.                                       *)

IntentTexts == {"What is a derivative?"} \cup QuestionsWithMyNameIs
IntentCompletions ==
    { IntentAnalysis("t1", "understand_concept", "confused"),
      IntentAnalysis("t2", "exploration", "curious"),
      IntentAnalysis("unknown", "prepare_for_test", "frustrated"),
      Unparsable, CompletionRaises }
IntentModerations ==
    { ModerationError, ModerationResult(FALSE, FALSE), ModerationResult(TRUE, FALSE),
      ModerationResult(TRUE, TRUE) }

IntentArgs ==
    [text : IntentTexts, completion : IntentCompletions,
     moderation : IntentModerations, integrity_true : BOOLEAN]

InitIntent ==
    /\ store = <<>>
    /\ pinecone_index = DefaultIndex
    /\ users = InitUsers
    /\ now = FirstDay
    /\ args \in IntentArgs
    /\ last = NoCall
    /\ inv = NoInvocations

NextIntent == CallParseIntent

SpecIntent == InitIntent /\ [][NextIntent]_vars

----------------------------------------------------------------------------
(* Response orchestrator: generate_personalized_response, one step per     *)
(* stage.  inv[p] holds the position and the locals of invocation p.       *)

IntegrityRedirect == "I can help you understand the concepts, but I cannot provide direct answers to assignments or tests. Let's work through a similar example problem."
PrivacyMessage == "It looks like you may have shared some personal information. To protect your privacy, please rephrase your question without including any personal details."
GenericRefusal == "I am unable to process this request. Please try rephrasing your question or ask something else."
NoHistoryNotice == "No personal learning history available due to consent level."
AnswerText == "answer"

\* the gate reacts to the integrity flag only
RiskGateCloses_IntegrityOnly(risk_flags) == ACADEMIC_INTEGRITY_CONCERN \in risk_flags

\* `if intent.risk_flags:`
RiskGateCloses(risk_flags) == risk_flags # {}

\* the privacy message takes precedence over the integrity redirect
RiskReply_PrivacyFirst(risk_flags) ==
    IF PII_DETECTED \in risk_flags THEN PrivacyMessage
    ELSE IF ACADEMIC_INTEGRITY_CONCERN \in risk_flags THEN IntegrityRedirect
    ELSE GenericRefusal

\* the fixed reply of the risk gate
RiskReply(risk_flags) ==
    IF ACADEMIC_INTEGRITY_CONCERN \in risk_flags THEN IntegrityRedirect
    ELSE IF PII_DETECTED \in risk_flags THEN PrivacyMessage
    ELSE GenericRefusal

\* the calls an invocation has issued to its collaborators, those of them
\* that raised, and the number of stored records at its difficulty lookup
NoCalls == [difficulty_lookups |-> 0, retrievals |-> 0, completions |-> 0,
            moderations |-> 0, store_writes |-> 0, failed |-> {},
            records_at_lookup |-> 0]

Idle == [pc |-> "idle"]

Active(p) == inv[p].pc \notin {"idle", "done", "failed"}

ActiveCount == Cardinality({p \in DOMAIN inv : Active(p)})

\* room in the bounded index for one more record, every running invocation
\* being able to write its own
RoomInStore(max) == Len(store) + ActiveCount < max

\* the call and its arguments
Start(p, student_id, current_question, subject, topic, context_limit, max) ==
    /\ ~Active(p)
    /\ RoomInStore(max)
    /\ inv' = [inv EXCEPT ![p] =
                  [pc |-> "consent_check", student_id |-> student_id,
                   current_question |-> current_question, subject |-> subject,
                   topic |-> topic, context_limit |-> context_limit,
                   calls |-> NoCalls]]
    /\ UNCHANGED <<store, users, now, args, last, pinecone_index>>

\* student = check_identity_and_consent_sync(student_id).  stored_level is
\* not read by the code: it records the consent_level column of the user at
\* this moment, for the properties.
ConsentCheck(p) ==
    /\ inv[p].pc = "consent_check"
    /\ inv' = [inv EXCEPT ![p] =
                  [pc |-> "intent_classify", student_id |-> inv[p].student_id,
                   current_question |-> inv[p].current_question,
                   subject |-> inv[p].subject, topic |-> inv[p].topic,
                   context_limit |-> inv[p].context_limit, calls |-> inv[p].calls,
                   student |-> check_identity_and_consent_sync(inv[p].student_id),
                   stored_level |-> Get(users, inv[p].student_id, NoneVal)]]
    /\ UNCHANGED <<store, users, now, args, last, pinecone_index>>

\* intent = parse_intent(current_question, self.llm): one completion for the
\* extraction, one moderation call, one chat for the integrity check
IntentClassify(p, completion, moderation, integrity_true) ==
    /\ inv[p].pc = "intent_classify"
    /\ inv' = [inv EXCEPT ![p] =
                  IF completion = CompletionRaises
                  THEN [pc |-> "failed", reply |-> "CompletionServiceError",
                        student_id |-> inv[p].student_id,
                        stored_level |-> inv[p].stored_level, risk_flags |-> {},
                        calls |-> [inv[p].calls EXCEPT !.completions = @ + 1,
                                                       !.failed = @ \cup {"completion"}]]
                  ELSE
                  [pc |-> "risk_gate", student_id |-> inv[p].student_id,
                   current_question |-> inv[p].current_question,
                   subject |-> inv[p].subject, topic |-> inv[p].topic,
                   context_limit |-> inv[p].context_limit,
                   student |-> inv[p].student, stored_level |-> inv[p].stored_level,
                   intent |-> ParseIntent(inv[p].current_question, completion,
                                          moderation, integrity_true),
                   calls |-> [inv[p].calls EXCEPT
                                 !.completions = @ + 2, !.moderations = @ + 1]]]
    /\ UNCHANGED <<store, users, now, args, last, pinecone_index>>

\* what is left of an invocation that has returned or raised
Finished(p, pc, reply) ==
    [pc |-> pc, reply |-> reply, student_id |-> inv[p].student_id,
     stored_level |-> inv[p].stored_level,
     risk_flags |-> inv[p].intent.risk_flags, calls |-> inv[p].calls]

\* Policy/Ethics gate
RiskGate(p) ==
    /\ inv[p].pc = "risk_gate"
    /\ inv' = [inv EXCEPT ![p] =
                  IF RiskGateCloses(inv[p].intent.risk_flags)
                  THEN Finished(p, "done", RiskReply(inv[p].intent.risk_flags))
                  ELSE [inv[p] EXCEPT !.pc = "retrieve"]]
    /\ UNCHANGED <<store, users, now, args, last, pinecone_index>>

\* `student.consent_level == ConsentLevel.MINIMAL_PSEUDONYMOUS` in the
\* orchestrator
PersonalizationForbidden(student) == student.consent_level = MINIMAL_PSEUDONYMOUS

\* a store query that raised passes for a query that found nothing
QueryOutcome_EmptyOnFailure(r, failing_query) ==
    IF failing_query = "none" THEN r ELSE [r EXCEPT !.nodes = <<>>]

\* What retrieve_student_context gives its caller when retriever.retrieve
\* raises in the difficulty lookup or in the candidate retrieval
\* (failing_query names which, "none" when neither does): the exception
\* leaves the function, status "unavailable".
QueryOutcome(r, failing_query) ==
    IF failing_query = "none" THEN r
    ELSE [r EXCEPT !.status = "unavailable", !.nodes = <<>>]

\* the topic the caller passed is used
ParsedTopic_CallerTopic(intent, topic) == topic

\* parsed_topic = intent.topic
ParsedTopic(intent, topic) == intent.topic

\* Retrieval orchestration with the topic of the parsed intent.  Under
\* minimal consent only the difficulty is looked up; otherwise
\* retrieve_student_context runs with limit=context_limit and its default
\* threshold and alpha, and an exception it raises ends the invocation.
Retrieve(p, failing_query) ==
    /\ inv[p].pc = "retrieve"
    /\ LET parsed_topic == ParsedTopic(inv[p].intent, inv[p].topic)
           \* no candidate retrieval is issued under minimal consent
           issued_failing ==
               IF failing_query = "retrieval" /\ PersonalizationForbidden(inv[p].student)
               THEN "none" ELSE failing_query
           r == QueryOutcome(
                    RetrieveStudentContext(store, now, inv[p].student, parsed_topic,
                                           inv[p].subject, {}, inv[p].context_limit,
                                           default_similarity_threshold,
                                           default_recency_alpha),
                    issued_failing)
           raised == IF issued_failing = "none" THEN {} ELSE {"store_query"}
       IN  inv' = [inv EXCEPT ![p] =
              IF r.status = "unavailable"
              THEN [Finished(p, "failed", "StoreQueryError") EXCEPT
                       !.calls.difficulty_lookups = @ + 1,
                       !.calls.records_at_lookup = Len(store),
                       !.calls.retrievals =
                           IF issued_failing = "retrieval" THEN @ + 1 ELSE @,
                       !.calls.failed = @ \cup raised]
              ELSE IF PersonalizationForbidden(inv[p].student)
              THEN [pc |-> "prompt", student_id |-> inv[p].student_id,
                    current_question |-> inv[p].current_question,
                    subject |-> inv[p].subject, topic |-> inv[p].topic,
                    context_limit |-> inv[p].context_limit,
                    student |-> inv[p].student, stored_level |-> inv[p].stored_level,
                    intent |-> inv[p].intent,
                    calls |-> [inv[p].calls EXCEPT !.difficulty_lookups = @ + 1,
                                                   !.records_at_lookup = Len(store),
                                                   !.failed = @ \cup raised],
                    assessed_difficulty |->
                        GetStudentCurrentDifficulty(store, inv[p].student.student_id,
                                                    parsed_topic, inv[p].subject),
                    student_context |-> <<>>, context_parts |-> <<>>,
                    context_text |-> NoHistoryNotice, citations |-> {}]
              ELSE IF r.status = "error"
              THEN [Finished(p, "failed", "ValueError") EXCEPT
                       !.calls.failed = @ \cup raised]
              ELSE [pc |-> "cite", student_id |-> inv[p].student_id,
                    current_question |-> inv[p].current_question,
                    subject |-> inv[p].subject, topic |-> inv[p].topic,
                    context_limit |-> inv[p].context_limit,
                    student |-> inv[p].student, stored_level |-> inv[p].stored_level,
                    intent |-> inv[p].intent,
                    calls |-> [inv[p].calls EXCEPT !.difficulty_lookups = @ + 1,
                                                   !.records_at_lookup = Len(store),
                                                   !.retrievals = @ + 1,
                                                   !.failed = @ \cup raised],
                    assessed_difficulty |-> r.difficulty,
                    student_context |-> r.nodes, context_parts |-> <<>>,
                    context_text |-> "", citations |-> {}]]
    /\ UNCHANGED <<store, users, now, args, last, pinecone_index>>

\* node.metadata.get("document_title") or node.metadata.get("filename", "Unknown Source")
DocTitle(n) ==
    IF Get(n.metadata, "document_title", "") # ""
    THEN n.metadata["document_title"]
    ELSE Get(n.metadata, "filename", "Unknown Source")

\* after the citation loop the invocation goes back to retrieval
Cite_BackToRetrieval(p) ==
    /\ inv[p].pc = "cite"
    /\ inv' = [inv EXCEPT ![p] = [inv[p] EXCEPT !.pc = "retrieve"]]
    /\ UNCHANGED <<store, users, now, args, last, pinecone_index>>

\* the citation loop: one "[Source: title]\ntext" part per retrieved node;
\* context_text is their join, "" when there is none
Cite(p) ==
    /\ inv[p].pc = "cite"
    /\ LET nodes == inv[p].student_context
           parts == [i \in 1..Len(nodes) |->
                        [source |-> DocTitle(nodes[i]), doc_id |-> nodes[i].doc_id]]
       IN  inv' = [inv EXCEPT ![p] =
                      [inv[p] EXCEPT !.pc = "prompt",
                                     !.context_parts = parts,
                                     !.context_text = IF parts = <<>> THEN "" ELSE "parts",
                                     !.citations = {DocTitle(nodes[i]) : i \in 1..Len(nodes)}]]
    /\ UNCHANGED <<store, users, now, args, last, pinecone_index>>

\* the mandatory-citation instructions are chosen whether citations exist or not
BuildPrompt_AlwaysCite(context_text, context_parts, citations) ==
    [learning_context |->
        IF context_text # "" THEN context_text
        ELSE "No uploaded documents found for this topic.",
     records |-> context_parts,
     instructions |-> "must_cite",
     sources |-> citations]

\* the prompt: the learning context or the "no documents" notice, and the
\* citation instructions chosen by whether citations exist
BuildPrompt(context_text, context_parts, citations) ==
    [learning_context |->
        IF context_text # "" THEN context_text
        ELSE "No uploaded documents found for this topic.",
     records |-> context_parts,
     instructions |-> IF citations # {} THEN "must_cite" ELSE "invite_upload",
     sources |-> citations]

Prompt(p) ==
    /\ inv[p].pc = "prompt"
    /\ inv' = [inv EXCEPT ![p] =
                  [pc |-> "complete", student_id |-> inv[p].student_id,
                   current_question |-> inv[p].current_question,
                   subject |-> inv[p].subject, topic |-> inv[p].topic,
                   context_limit |-> inv[p].context_limit,
                   student |-> inv[p].student, stored_level |-> inv[p].stored_level,
                   intent |-> inv[p].intent, calls |-> inv[p].calls,
                   assessed_difficulty |-> inv[p].assessed_difficulty,
                   student_context |-> inv[p].student_context,
                   citations |-> inv[p].citations,
                   prompt |-> BuildPrompt(inv[p].context_text, inv[p].context_parts,
                                          inv[p].citations)]]
    /\ UNCHANGED <<store, users, now, args, last, pinecone_index>>

\* a completion that raised is issued again
Complete_RetriesOnError(p, ok) ==
    /\ inv[p].pc = "complete"
    /\ inv' = [inv EXCEPT ![p] =
                  IF ok
                  THEN [pc |-> "write_back", student_id |-> inv[p].student_id,
                        subject |-> inv[p].subject,
                        current_question |-> inv[p].current_question,
                        stored_level |-> inv[p].stored_level,
                        intent |-> inv[p].intent,
                        calls |-> [inv[p].calls EXCEPT !.completions = @ + 1],
                        assessed_difficulty |-> inv[p].assessed_difficulty,
                        response |-> AnswerText]
                  ELSE [inv[p] EXCEPT !.calls.completions = @ + 1]]
    /\ UNCHANGED <<store, users, now, args, last, pinecone_index>>

\* response = self.llm.complete(prompt); an exception of the service
\* propagates
Complete(p, ok) ==
    /\ inv[p].pc = "complete"
    /\ inv' = [inv EXCEPT ![p] =
                  IF ok
                  THEN [pc |-> "write_back", student_id |-> inv[p].student_id,
                        subject |-> inv[p].subject,
                        current_question |-> inv[p].current_question,
                        stored_level |-> inv[p].stored_level,
                        intent |-> inv[p].intent,
                        calls |-> [inv[p].calls EXCEPT !.completions = @ + 1],
                        assessed_difficulty |-> inv[p].assessed_difficulty,
                        response |-> AnswerText]
                  ELSE [Finished(p, "failed", "CompletionServiceError") EXCEPT
                            !.calls.completions = @ + 1,
                            !.calls.failed = @ \cup {"completion"}]]
    /\ UNCHANGED <<store, users, now, args, last, pinecone_index>>

GoalAndAffect(intent) ==
    [k \in {"goal", "affective_state"} |->
        IF k = "goal" THEN intent.goal ELSE intent.affective_state]

\* the difficulty of the write-back is the initial value 5, not the assessed one
WriteBackContext_InitialDifficulty(student_id, current_question, response, subject, intent, assessed_difficulty, today) ==
    LearningContext(student_id, subject, intent.topic, 5, "mixed",
                    today, "Q: " \o current_question \o "\nA: " \o response,
                    LEARNING_INTERACTION, GoalAndAffect(intent),
                    "Chat Interaction on " \o intent.topic)

\* the write-back raises the difficulty by one level
WriteBackContext_NextLevel(student_id, current_question, response, subject, intent, assessed_difficulty, today) ==
    LearningContext(student_id, subject, intent.topic, assessed_difficulty + 1, "mixed",
                    today, "Q: " \o current_question \o "\nA: " \o response,
                    LEARNING_INTERACTION, GoalAndAffect(intent),
                    "Chat Interaction on " \o intent.topic)

\* the LearningContext of the write-back
WriteBackContext(student_id, current_question, response, subject, intent, assessed_difficulty, today) ==
    LearningContext(student_id, subject, intent.topic, assessed_difficulty, "mixed",
                    today, "Q: " \o current_question \o "\nA: " \o response,
                    LEARNING_INTERACTION, GoalAndAffect(intent),
                    "Chat Interaction on " \o intent.topic)

\* Write-back, then `return response.text`; a failed insert raises
WriteBack(p, sim, ok) ==
    /\ inv[p].pc = "write_back"
    /\ IF ok
       THEN /\ store' = StoredAfter(store,
                            WriteBackContext(inv[p].student_id,
                                             inv[p].current_question,
                                             inv[p].response, inv[p].subject,
                                             inv[p].intent,
                                             inv[p].assessed_difficulty, now),
                            sim)
            /\ inv' = [inv EXCEPT ![p] =
                          [Finished(p, "done", inv[p].response) EXCEPT
                              !.calls.store_writes = @ + 1]]
       ELSE /\ store' = store
            /\ inv' = [inv EXCEPT ![p] =
                          [Finished(p, "failed", "StoreWriteError") EXCEPT
                              !.calls.store_writes = @ + 1,
                              !.calls.failed = @ \cup {"store_write"}]]
    /\ UNCHANGED <<users, now, args, last, pinecone_index>>

----------------------------------------------------------------------------
(* Spec: one caller of generate_personalized_response, the consent         *)
(* endpoints, the asynchronous consent gate and direct stores.             *)

Procs == {"p1"}

MainContexts ==
    { <<LearningContext("s1", "sub1", "t1", 3, "mixed", 7, "Notes on t1", CONTENT_MASTERY, NoExtra, "Notes"), 9000>>,
      <<LearningContext("s2", "sub1", "t1", 3, "mixed", 7, "Notes of another student", CONTENT_MASTERY, NoExtra, "Other"), 9000>>,
      <<LearningContext("s1", "sub1", "t1", 3, "mixed", 7, "Garbled entry", CONTENT_MASTERY,
                        TimestampOverride(BadTs), "Garbled"), 6000>>,
      <<LearningContext("s1", "sub1", "t2", 5, "mixed", 7, "Notes on t2", CONTENT_MASTERY, NoExtra, "Notes on t2"), 9000>> }

MainStudents == {"s1"}
MainQuestions == {"What is a derivative?"} \cup QuestionsWithMyNameIs
MainSubjects == {"sub1"}
MainTopics == {"t1", "t2"}
MainLimits == {2}
MainCompletions ==
    { IntentAnalysis("t1", "understand_concept", "confused"), Unparsable,
      CompletionRaises }
MainFailingQueries == {"none", "difficulty", "retrieval"}
MainModerations ==
    { ModerationError, ModerationResult(FALSE, FALSE), ModerationResult(TRUE, FALSE),
      ModerationResult(TRUE, TRUE) }
MainSims == {9000}
RequestedLevels == valid_levels \cup {"everything"}
GateStudentIds == {"s1", "s3"}

NoArgs == [none |-> TRUE]

Init ==
    /\ store = <<>>
    /\ pinecone_index = DefaultIndex
    /\ users = InitUsers
    /\ now = FirstDay
    /\ args = NoArgs
    /\ last = NoCall
    /\ inv = [p \in Procs |-> Idle]

Next ==
    \/ \E c \in MainContexts :
          /\ RoomInStore(MaxStoreMain)
          /\ StoreLearningInteraction(c[1], c[2])
    \/ \E u \in MainStudents, level \in RequestedLevels : UpdateConsent(u, level)
    \/ \E u \in MainStudents, confirm \in BOOLEAN : RequestDataDeletion(u, confirm)
    \/ \E id \in GateStudentIds, has_session \in BOOLEAN, raises \in BOOLEAN :
          CheckIdentityAndConsent(id, has_session, raises)
    \/ \E p \in DOMAIN inv, id \in MainStudents, q \in MainQuestions,
          subject \in MainSubjects, topic \in MainTopics, limit \in MainLimits :
          Start(p, id, q, subject, topic, limit, MaxStoreMain)
    \/ \E p \in DOMAIN inv : ConsentCheck(p)
    \/ \E p \in DOMAIN inv, completion \in MainCompletions,
          moderation \in MainModerations, integrity_true \in BOOLEAN :
          IntentClassify(p, completion, moderation, integrity_true)
    \/ \E p \in DOMAIN inv : RiskGate(p)
    \/ \E p \in DOMAIN inv, failing_query \in MainFailingQueries :
          Retrieve(p, failing_query)
    \/ \E p \in DOMAIN inv : Cite(p)
    \/ \E p \in DOMAIN inv : Prompt(p)
    \/ \E p \in DOMAIN inv, ok \in BOOLEAN : Complete(p, ok)
    \/ \E p \in DOMAIN inv, sim \in MainSims, ok \in BOOLEAN : WriteBack(p, sim, ok)

Spec == Init /\ [][Next]_vars

----------------------------------------------------------------------------
(* SpecWrites: every operation that writes to the index or replaces it:    *)
(* the constructor, skill assessments, file uploads and the write-back of  *)
(* generate_personalized_response, with the consent endpoint.              *)

WriteEmbeddingModels == {"text-embedding-3-small", "text-embedding-3-large"}
WriteIndexDimensions == {0}
\* competency levels 0.05 and 0.5
WriteCompetencies == {5, 50}
WriteFiles ==
    { UploadedFile("notes.pdf", "pdf", FALSE, <<"Chunk one", "Chunk two">>),
      UploadedFile("scan.pdf", "pdf", TRUE, <<>>),
      UploadedFile("notes.txt", "txt", FALSE, <<"Plain text">>) }
WriteSubjects == {"sub1", "General"}
WriteTopics == {"t1", NoneVal}
WriteDifficulties == {5}
WriteQuestions == {"What is a derivative?"}
WriteCompletions == { IntentAnalysis("t1", "understand_concept", "confused") }
WriteModerations == { ModerationResult(FALSE, FALSE), ModerationResult(TRUE, FALSE) }
WriteLevels == {FULL_PROFILE, MINIMAL_PSEUDONYMOUS}

InitWrites ==
    /\ store = <<>>
    /\ pinecone_index = DefaultIndex
    /\ users = InitUsers
    /\ now = FirstDay
    /\ args = NoArgs
    /\ last = NoCall
    /\ inv = [p \in Procs |-> Idle]

NextWrites ==
    \/ \E model \in WriteEmbeddingModels, dimension \in WriteIndexDimensions,
          describe_raises \in BOOLEAN : Construct(model, dimension, describe_raises)
    \/ \E competency \in WriteCompetencies :
          /\ RoomInStore(MaxStoreWrites)
          /\ UpdateStudentSkillAssessment("s1", "sub1", "t1", competency,
                                          "two slips", 9000)
    \/ \E file \in WriteFiles, subject \in WriteSubjects, topic \in WriteTopics,
          difficulty \in WriteDifficulties :
          /\ Len(store) + ActiveCount + Len(file.chunks) <= MaxStoreWrites
          /\ ProcessAndStoreFile(file, "s1", subject, topic, difficulty, NoExtra,
                                 NoneVal, "sub1", 9000)
    \/ \E level \in WriteLevels : UpdateConsent("s1", level)
    \/ \E p \in DOMAIN inv, q \in WriteQuestions :
          Start(p, "s1", q, "sub1", "t1", 2, MaxStoreWrites)
    \/ \E p \in DOMAIN inv : ConsentCheck(p)
    \/ \E p \in DOMAIN inv, completion \in WriteCompletions,
          moderation \in WriteModerations :
          IntentClassify(p, completion, moderation, FALSE)
    \/ \E p \in DOMAIN inv : RiskGate(p)
    \/ \E p \in DOMAIN inv : Retrieve(p, "none")
    \/ \E p \in DOMAIN inv : Cite(p)
    \/ \E p \in DOMAIN inv : Prompt(p)
    \/ \E p \in DOMAIN inv, ok \in BOOLEAN : Complete(p, ok)
    \/ \E p \in DOMAIN inv, ok \in BOOLEAN : WriteBack(p, 9000, ok)

SpecWrites == InitWrites /\ [][NextWrites]_vars

----------------------------------------------------------------------------
(* SpecConcurrent: two invocations of generate_personalized_response for   *)
(* the same student, subject and parsed topic, their steps interleaved in  *)
(* every order, beside a direct writer of the student's notes.  Nothing in *)
(* the code holds a lock between the difficulty lookup and the write-back. *)

MaxStoreConcurrent == 3

ConcurrentProcs == {"p1", "p2"}
ConcurrentContexts ==
    { <<LearningContext("s1", "sub1", "t1", 4, "mixed", 7, "Notes on t1", CONTENT_MASTERY, NoExtra, "Notes"), 9000>> }
ConcurrentQuestions == {"What is a derivative?"} \cup QuestionsWithMyNameIs
ConcurrentCompletions == { IntentAnalysis("t1", "understand_concept", "confused") }
ConcurrentModerations == { ModerationResult(FALSE, FALSE) }

InitConcurrent ==
    /\ store = <<>>
    /\ pinecone_index = DefaultIndex
    /\ users = InitUsers
    /\ now = FirstDay
    /\ args = NoArgs
    /\ last = NoCall
    /\ inv = [p \in ConcurrentProcs |-> Idle]

NextConcurrent ==
    \/ \E c \in ConcurrentContexts :
          /\ RoomInStore(MaxStoreConcurrent)
          /\ StoreLearningInteraction(c[1], c[2])
    \/ \E p \in DOMAIN inv, q \in ConcurrentQuestions :
          /\ inv[p].pc = "idle"
          /\ Start(p, "s1", q, "sub1", "t1", 2, MaxStoreConcurrent)
    \/ \E p \in DOMAIN inv : ConsentCheck(p)
    \/ \E p \in DOMAIN inv, completion \in ConcurrentCompletions,
          moderation \in ConcurrentModerations :
          IntentClassify(p, completion, moderation, FALSE)
    \/ \E p \in DOMAIN inv : RiskGate(p)
    \/ \E p \in DOMAIN inv : Retrieve(p, "none")
    \/ \E p \in DOMAIN inv : Cite(p)
    \/ \E p \in DOMAIN inv : Prompt(p)
    \/ \E p \in DOMAIN inv : Complete(p, TRUE)
    \/ \E p \in DOMAIN inv : WriteBack(p, 9000, TRUE)

SpecConcurrent == InitConcurrent /\ [][NextConcurrent]_vars

----------------------------------------------------------------------------
(* SpecHistory: one student calls generate_personalized_response again and *)
(* again on an index that holds a history, and nothing else writes.  The   *)
(* histories are records the program stamped with datetime.now() earlier;  *)
(* the long ones hold more matching records than the difficulty lookup     *)
(* asks the store for.                                                     *)

MaxHistoryCalls == 2

\* the documents of the contexts cs, <<LearningContext, similarity>>, in the
\* order they were stored
HistoryOf(cs) == [i \in 1..Len(cs) |-> Document(cs[i][1], cs[i][2])]

Repeated(n, x) == [i \in 1..n |-> x]

HistoryNote(topic, difficulty, day, sim) ==
    <<LearningContext("s1", "sub1", topic, difficulty, "mixed", day, "Notes", CONTENT_MASTERY, NoExtra, "Notes"), sim>>

Histories ==
    { <<>>,
      HistoryOf(<<HistoryNote("t1", 4, 6, 9000)>>),
      HistoryOf(<<HistoryNote("t1", 4, 6, 9000), HistoryNote("t1", 5, 7, 8000)>>),
      HistoryOf(<<HistoryNote("t2", 5, 7, 9000),
                  <<LearningContext("s2", "sub1", "t1", 6, "mixed", 7, "Notes of another student", CONTENT_MASTERY, NoExtra, "Other"), 9000>>>>),
      HistoryOf(Repeated(difficulty_top_k, HistoryNote("t1", 3, 5, 9000))
                \o <<HistoryNote("t1", 5, 6, 7000)>>),
      HistoryOf(Repeated(difficulty_top_k - 1, HistoryNote("t1", 3, 5, 9000))
                \o <<HistoryNote("t1", 5, 6, 7000)>>) }

HistoryCompletions ==
    { IntentAnalysis("t1", "understand_concept", "confused"),
      IntentAnalysis("t2", "understand_concept", "confused"), Unparsable }
HistoryModerations == { ModerationResult(FALSE, FALSE), ModerationResult(TRUE, FALSE) }
\* the similarity of the written-back record: below and above the history's
HistorySims == {6000, 9500}

InitHistory ==
    /\ args \in [history : Histories]
    /\ store = args.history
    /\ pinecone_index = DefaultIndex
    /\ users = InitUsers
    /\ now = FirstDay
    /\ last = NoCall
    /\ inv = [p \in Procs |-> Idle]

NextHistory ==
    \/ \E p \in DOMAIN inv :
          Start(p, "s1", "What is a derivative?", "sub1", "t1", 2,
                Len(args.history) + MaxHistoryCalls)
    \/ \E p \in DOMAIN inv : ConsentCheck(p)
    \/ \E p \in DOMAIN inv, completion \in HistoryCompletions,
          moderation \in HistoryModerations :
          IntentClassify(p, completion, moderation, FALSE)
    \/ \E p \in DOMAIN inv : RiskGate(p)
    \/ \E p \in DOMAIN inv : Retrieve(p, "none")
    \/ \E p \in DOMAIN inv : Cite(p)
    \/ \E p \in DOMAIN inv : Prompt(p)
    \/ \E p \in DOMAIN inv : Complete(p, TRUE)
    \/ \E p \in DOMAIN inv, sim \in HistorySims : WriteBack(p, sim, TRUE)

SpecHistory == InitHistory /\ [][NextHistory]_vars

----------------------------------------------------------------------------
(* Properties of retrieve_student_context and the difficulty lookup.       *)
(* `last` is overwritten by every operation, so whenever last.op names a   *)
(* call, store and now are those the call ran on.                          *)

Retrieved == last.op = "retrieve_student_context"

\* what the same call returns for a student of full consent
ResultUnderFullConsent ==
    RetrieveStudentContext(store, now, Student(args.student.student_id, FULL_PROFILE),
                           args.current_topic, args.subject, args.memory_types,
                           args.limit, args.similarity_threshold, args.recency_alpha)

\* C1: for a student of consent level minimal_pseudonymous,
\* retrieve_student_context returns the empty list paired with the current
\* difficulty, whatever the store holds, and the candidate retrieval and
\* re-ranking are not run.
C1_MinimalConsentRetrievesNothing ==
    (Retrieved /\ args.student.consent_level = MINIMAL_PSEUDONYMOUS) =>
        /\ last.result.status = "ok"
        /\ last.result.nodes = <<>>
        /\ last.result.queried = FALSE
        /\ last.result.candidates = <<>>
        /\ last.result.difficulty =
              GetStudentCurrentDifficulty(store, args.student.student_id,
                                          args.current_topic, args.subject)

\* a minimal-consent call on a store from which full consent would get records
C1_Witness ==
    /\ Retrieved
    /\ args.student.consent_level = MINIMAL_PSEUDONYMOUS
    /\ ResultUnderFullConsent.status = "ok"
    /\ ResultUnderFullConsent.nodes # <<>>
    /\ last.result.difficulty # default_level

\* the documents of the store owned by student_id
OwnDocuments(st, student_id) ==
    SelectSeq(st, LAMBDA d : Get(d.metadata, "student_id", NoneVal) = student_id)

\* C4: every record returned for student S has student_id exactly S, and the
\* returned list and difficulty are the ones the call returns on the store
\* without the records of other students.
C4_OnlyOwnRecords ==
    Retrieved =>
        /\ \A i \in 1..Len(last.result.nodes) :
              /\ "student_id" \in DOMAIN last.result.nodes[i].metadata
              /\ last.result.nodes[i].metadata["student_id"] = args.student.student_id
        /\ last.result =
              RetrieveStudentContext(OwnDocuments(store, args.student.student_id), now,
                                     args.student, args.current_topic, args.subject,
                                     args.memory_types, args.limit,
                                     args.similarity_threshold, args.recency_alpha)

\* records are returned while the store holds a record of another student
\* that passes every filter but the owner filter
C4_Witness ==
    /\ Retrieved
    /\ last.result.status = "ok"
    /\ last.result.nodes # <<>>
    /\ \E i \in 1..Len(store) :
          /\ store[i].metadata["student_id"] # args.student.student_id
          /\ store[i].metadata["difficulty_level"] \in last.result.difficulty_range
          /\ args.subject # NoneVal => store[i].metadata["subject"] = args.subject
          /\ args.memory_types # {} => store[i].metadata["memory_type"] \in args.memory_types

\* the stored documents that pass the owner, subject and memory type filters
\* of the call
PassOtherFilters ==
    SelectSeq(store, LAMBDA d :
        /\ Get(d.metadata, "student_id", NoneVal) = args.student.student_id
        /\ args.subject # NoneVal => Get(d.metadata, "subject", NoneVal) = args.subject
        /\ args.memory_types # {} =>
              Get(d.metadata, "memory_type", NoneVal) \in args.memory_types)

\* C7: for a current difficulty d in 1..10 the difficulty levels used as the
\* retrieval filter are exactly the integers from max(1, d-1) to min(10, d+1):
\* {1, 2} for d = 1 and {9, 10} for d = 10; the candidates are the documents
\* passing the other filters whose level is in that range.
C7_DifficultyWindow ==
    (Retrieved /\ last.result.queried /\ last.result.difficulty \in 1..10) =>
        LET d == last.result.difficulty
            lo == IF d - 1 < 1 THEN 1 ELSE d - 1
            hi == IF d + 1 > 10 THEN 10 ELSE d + 1
            inWindow == SelectSeq(PassOtherFilters,
                                  LAMBDA x : x.metadata["difficulty_level"] \in lo..hi)
        IN  /\ last.result.difficulty_range = lo..hi
            /\ d = 1 => last.result.difficulty_range = {1, 2}
            /\ d = 10 => last.result.difficulty_range = {9, 10}
            /\ \A i \in 1..Len(last.result.candidates) :
                  last.result.candidates[i].metadata["difficulty_level"] \in lo..hi
            /\ Len(last.result.candidates) = Min(Len(inWindow), 2 * args.limit)

\* retrieval at the upper boundary, with a candidate of level 10
C7_Witness ==
    /\ Retrieved
    /\ last.result.difficulty = 10
    /\ \E i \in 1..Len(last.result.candidates) :
          last.result.candidates[i].metadata["difficulty_level"] = 10
    /\ \E i \in 1..Len(store) : store[i].metadata["difficulty_level"] = 11

\* the blended score of a returned node
ExpectedScore(n) ==
    CombinedScore(n.sim, RecencyScore(now - n.metadata["timestamp"].day),
                  args.recency_alpha)

\* C8: the returned list is ordered by non-increasing combined score and no
\* returned record has a combined score below similarity_threshold.
C8_RankedAndThresholded ==
    (Retrieved /\ last.result.status = "ok") =>
        LET nodes == last.result.nodes
        IN  /\ \A i \in 1..Len(nodes) :
                  /\ nodes[i].score = ExpectedScore(nodes[i])
                  /\ nodes[i].score >= args.similarity_threshold
            /\ \A i, j \in 1..Len(nodes) : i < j => nodes[i].score >= nodes[j].score

\* a timestamped candidate is left out for its score while a candidate the
\* store ranked after it is returned
C8_Witness ==
    /\ Retrieved
    /\ last.result.status = "ok"
    /\ Len(last.result.nodes) >= 1
    /\ \E i \in 1..Len(last.result.candidates) :
          LET c == last.result.candidates[i]
          IN  /\ HasTimestamp(c)
              /\ ExpectedScore(c) < args.similarity_threshold
              /\ \E j \in 1..Len(last.result.candidates) :
                    /\ i < j
                    /\ \E k \in 1..Len(last.result.nodes) :
                          last.result.nodes[k].doc_id = last.result.candidates[j].doc_id

\* the timestamp metadata of the node parses as an ISO timestamp
ParsableTimestamp(n) ==
    /\ "timestamp" \in DOMAIN n.metadata
    /\ n.metadata["timestamp"].kind = "iso"

\* C9 (as claimed): a candidate without a parsable timestamp (missing, empty
\* or not ISO) is dropped, and the remaining candidates are still ranked and
\* returned: the call returns, only records with a parsable timestamp, and
\* every parsable candidate that reaches the threshold when no more than
\* `limit` of them do.
C9_UnparsableDroppedRestReturned ==
    (Retrieved /\ last.result.queried) =>
        LET usable == SelectSeq(last.result.candidates, LAMBDA c :
                          /\ ParsableTimestamp(c)
                          /\ ExpectedScore(c) >= args.similarity_threshold)
        IN  /\ last.result.status = "ok"
            /\ \A i \in 1..Len(last.result.nodes) : ParsableTimestamp(last.result.nodes[i])
            /\ Len(usable) <= args.limit =>
                  \A i \in 1..Len(usable) : \E k \in 1..Len(last.result.nodes) :
                      last.result.nodes[k].doc_id = usable[i].doc_id

\* the stored documents matching student_id, topic and subject of the lookup
MatchingDifficultyRecords ==
    SelectSeq(store, LAMBDA d :
        /\ Get(d.metadata, "student_id", NoneVal) = args.student_id
        /\ Get(d.metadata, "topic", NoneVal) = args.topic
        /\ Get(d.metadata, "subject", NoneVal) = args.subject)

\* C10 (as claimed): the lookup returns the difficulty_level of the most
\* recent record of the store matching student_id, topic and subject, and the
\* default when there is none.
C10_MostRecentMatchingRecord ==
    last.op = "_get_student_current_difficulty" =>
        LET m == MatchingDifficultyRecords
        IN  IF m = <<>> THEN last.result = default_level
            ELSE \E i \in 1..Len(m) :
                    /\ \A j \in 1..Len(m) :
                          m[j].metadata["timestamp"].day <= m[i].metadata["timestamp"].day
                    /\ last.result = m[i].metadata["difficulty_level"]

----------------------------------------------------------------------------
(* Properties of the orchestrator and the consent gate *)

\* the risk flags of invocation p, {} before classification
RiskFlagsOf(p) ==
    IF "intent" \in DOMAIN inv[p] THEN inv[p].intent.risk_flags
    ELSE IF "risk_flags" \in DOMAIN inv[p] THEN inv[p].risk_flags
    ELSE {}

\* C2: an invocation whose parsed intent carries a risk flag ends at the risk
\* gate: its step from the gate returns and leaves the store unchanged, and
\* it makes no difficulty lookup, no retrieval, no final completion (the two
\* completions of classification are its only ones) and no store write.
C2_RiskGateShortCircuits ==
    [][\A p \in DOMAIN inv :
          /\ (RiskFlagsOf(p) # {})' =>
                /\ inv'[p].pc \in {"risk_gate", "done"}
                /\ inv'[p].calls.difficulty_lookups = 0
                /\ inv'[p].calls.retrievals = 0
                /\ inv'[p].calls.store_writes = 0
                /\ inv'[p].calls.completions = 2
          /\ (inv[p].pc = "risk_gate" /\ RiskFlagsOf(p) # {} /\ inv'[p] # inv[p]) =>
                /\ inv'[p].pc = "done"
                /\ store' = store]_vars

\* a flagged invocation has returned while the store holds a record of its
\* student, and the flag is not the integrity flag
C2_Witness ==
    \E p \in DOMAIN inv :
        /\ inv[p].pc = "done"
        /\ inv[p].risk_flags = {PII_DETECTED}
        /\ \E i \in 1..Len(store) : store[i].metadata["student_id"] = inv[p].student_id

\* C3: the reply of the risk gate by priority: the integrity redirect when
\* academic_integrity_concern is flagged (and no store write was made),
\* otherwise the privacy message when pii_detected is flagged, otherwise the
\* generic refusal.
C3_RiskReplyPriority ==
    \A p \in DOMAIN inv :
        (inv[p].pc = "done" /\ inv[p].risk_flags # {}) =>
            LET f == inv[p].risk_flags
            IN  /\ ACADEMIC_INTEGRITY_CONCERN \in f =>
                      /\ inv[p].reply = IntegrityRedirect
                      /\ inv[p].calls.store_writes = 0
                /\ (ACADEMIC_INTEGRITY_CONCERN \notin f /\ PII_DETECTED \in f) =>
                      inv[p].reply = PrivacyMessage
                /\ f \subseteq {SELF_HARM_CONCERN, INAPPROPRIATE_CONTENT} =>
                      inv[p].reply = GenericRefusal

\* the integrity flag wins over the PII flag and a moderation flag
C3_Witness ==
    \E p \in DOMAIN inv :
        /\ inv[p].pc = "done"
        /\ {ACADEMIC_INTEGRITY_CONCERN, PII_DETECTED, INAPPROPRIATE_CONTENT}
              \subseteq inv[p].risk_flags
        /\ inv[p].reply = IntegrityRedirect

\* C5 (as claimed): for a user whose stored consent level is
\* minimal_pseudonymous when the invocation checks consent, the prompt is
\* built without any retrieved memory record.
C5_MinimalConsentNeverPersonalized ==
    \A p \in DOMAIN inv :
        (inv[p].pc = "complete" /\ inv[p].stored_level = MINIMAL_PSEUDONYMOUS) =>
            /\ inv[p].prompt.records = <<>>
            /\ inv[p].student_context = <<>>

\* C6 (as claimed): when the lookup of the consent gate raises, the gate
\* ends in an error or returns a Student of level minimal_pseudonymous.
C6_FailedLookupNeverOverGrants ==
    (last.op = "check_identity_and_consent" /\ last.lookup_raised) =>
        \/ last.outcome = "error"
        \/ last.result.consent_level = MINIMAL_PSEUDONYMOUS

----------------------------------------------------------------------------
(* Properties of the records in the index *)

\* C11 (as claimed): every record in the store has an integer
\* difficulty_level between 1 and 10 inclusive.
C11_DifficultyLevelInRange ==
    \A i \in 1..Len(store) :
        /\ "difficulty_level" \in DOMAIN store[i].metadata
        /\ store[i].metadata["difficulty_level"] \in 1..10

\* C12 (as claimed): the identity key student_id + memory_type + timestamp is
\* unique: no two stored interactions that differ in text or metadata have
\* the same doc_id.
C12_DocIdUnique ==
    \A i, j \in 1..Len(store) :
        (i < j /\ (store[i].text # store[j].text \/ store[i].metadata # store[j].metadata))
            => store[i].doc_id # store[j].doc_id

\* C13 (as claimed): records are append-only: no step of the core removes or
\* changes a stored record; every record of the store is in the store after
\* the step, at its place, with the same text and metadata.
C13_AppendOnly ==
    [][\A i \in 1..Len(store) :
          /\ i <= Len(store')
          /\ store'[i].text = store[i].text
          /\ store'[i].metadata = store[i].metadata
          /\ store'[i].doc_id = store[i].doc_id]_vars

----------------------------------------------------------------------------
(* Properties of the write-back and the prompt *)

C15_MinimalConsentStoresNothing ==
    [][\A u \in DOMAIN users :
          users[u] = MINIMAL_PSEUDONYMOUS =>
              Len(OwnDocuments(store', u)) <= Len(OwnDocuments(store, u))]_vars

----------------------------------------------------------------------------
(* Round trip of a stored record *)

RECURSIVE SeqOfSet(_)
\* the elements of a finite set in some order
SeqOfSet(S) ==
    IF S = {} THEN <<>>
    ELSE LET x == CHOOSE y \in S : TRUE IN <<x>> \o SeqOfSet(S \ {x})

\* the fields of a LearningContext that go into the metadata, with the
\* values they are stored as
ScalarFields(c) ==
    [student_id |-> c.student_id, subject |-> c.subject, topic |-> c.topic,
     difficulty_level |-> c.difficulty_level, learning_style |-> c.learning_style,
     memory_type |-> c.memory_type, timestamp |-> IsoTs(c.timestamp),
     document_title |-> c.document_title]

\* one equality filter for every scalar field and every extra metadata entry
\* of the context that has a value (no filter can be written for None)
AllFieldFilters(c) ==
    LET fields == ScalarFields(c)
        core == {k \in DOMAIN fields : ~IsNone(k, fields[k])}
        extra == {k \in DOMAIN c.metadata : ~IsNone(k, c.metadata[k])}
    IN  [i \in 1..Len(SeqOfSet(core)) |->
            MetadataFilter(SeqOfSet(core)[i], fields[SeqOfSet(core)[i]], "EQ")]
        \o [i \in 1..Len(SeqOfSet(extra)) |->
            MetadataFilter(SeqOfSet(extra)[i], c.metadata[SeqOfSet(extra)[i]], "EQ")]

\* the node list holds the document
HoldsDocument(nodes, d) ==
    \E i \in 1..Len(nodes) :
        /\ nodes[i].doc_id = d.doc_id
        /\ nodes[i].text = d.text
        /\ nodes[i].metadata = d.metadata

\* C16 (as claimed): after store_learning_interaction(record), a store query
\* whose filters match all scalar fields of the record and its extra scalar
\* metadata returns the record whenever the similarity ranking of the store
\* places it within top_k.
C16_RoundTrip ==
    last.op = "store_learning_interaction" =>
        LET c == last.context
            d == store[Len(store)]
        IN  \A top_k \in 1..Len(store) :
                HoldsDocument(VectorRetrieve(store, <<>>, top_k), d) =>
                    HoldsDocument(VectorRetrieve(store, AllFieldFilters(c), top_k), d)

----------------------------------------------------------------------------
(* Ranking with recency_alpha = 1.0 *)

\* a candidate with a timestamp whose raw similarity reaches the threshold
PassesOnSimilarity(c) == HasTimestamp(c) /\ c.sim >= args.similarity_threshold

\* C17: with recency_alpha = 1.0 the returned candidates are in the order of
\* their raw similarity, whatever their timestamps are: the returned list is
\* the list of timestamped candidates reaching the threshold, in the order
\* the store ranked them by similarity, cut at limit.
C17_PureSimilarityOrder ==
    (Retrieved /\ last.result.status = "ok" /\ args.recency_alpha = 10) =>
        LET nodes == last.result.nodes
        IN  /\ nodes = Prefix(SelectSeq(last.result.candidates, PassesOnSimilarity),
                              args.limit)
            /\ \A i, j \in 1..Len(nodes) : i < j => nodes[i].sim >= nodes[j].sim

\* two records are returned under recency_alpha = 1.0, the more similar and
\* older one first, while the default recency_alpha puts the newer one first
C17_Witness ==
    /\ Retrieved
    /\ last.result.status = "ok"
    /\ args.recency_alpha = 10
    /\ Len(last.result.nodes) = 2
    /\ last.result.nodes[1].sim > last.result.nodes[2].sim
    /\ last.result.nodes[1].metadata["timestamp"].day
          < last.result.nodes[2].metadata["timestamp"].day
    /\ LET blended == RetrieveStudentContext(store, now, args.student,
                          args.current_topic, args.subject, args.memory_types,
                          args.limit, args.similarity_threshold,
                          default_recency_alpha).nodes
       IN  /\ Len(blended) = 2
           /\ blended[1].text = last.result.nodes[2].text

----------------------------------------------------------------------------
(* The instruction branch of the prompt *)

\* C18: the prompt carries the "no materials found" instructions that invite
\* an upload exactly when no record was retrieved (retrieval returned none or
\* was skipped), so that no citation source exists, and the
\* mandatory-citation instructions, listing the sources, exactly when at
\* least one record was retrieved.
C18_PromptBranch ==
    \A p \in DOMAIN inv :
        inv[p].pc = "complete" =>
            LET prompt == inv[p].prompt
                retrieved == inv[p].student_context
            IN  /\ prompt.instructions \in {"must_cite", "invite_upload"}
                /\ prompt.instructions = "invite_upload" <=> retrieved = <<>>
                /\ prompt.instructions = "must_cite" <=> Len(retrieved) >= 1
                /\ prompt.sources = {} <=> retrieved = <<>>
                /\ prompt.sources = {DocTitle(retrieved[i]) : i \in 1..Len(retrieved)}

\* a prompt with the mandatory-citation instructions built from a retrieved
\* record of the student
C18_Witness ==
    \E p \in DOMAIN inv :
        /\ inv[p].pc = "complete"
        /\ inv[p].prompt.instructions = "must_cite"
        /\ Len(inv[p].student_context) >= 1
        /\ "Notes" \in inv[p].prompt.sources

----------------------------------------------------------------------------
(* The cross-student lookup *)

\* C19 (as claimed): find_similar_learning_patterns returns only records of
\* type success_milestone or error_pattern, and a returned record of another
\* student carries no personally identifying field: whenever a returned
\* record names its owner in student_id, the owner is the caller.
C19_CrossStudentAnonymized ==
    last.op = "find_similar_learning_patterns" =>
        \A i \in 1..Len(last.result) :
            LET n == last.result[i]
            IN  /\ Get(n.metadata, "memory_type", NoneVal)
                      \in {SUCCESS_MILESTONE, ERROR_PATTERN}
                /\ "student_id" \in DOMAIN n.metadata =>
                      n.metadata["student_id"] = args.student.student_id

----------------------------------------------------------------------------
(* The fallback of intent classification *)

\* C20: when the reply of the structured extraction cannot be parsed,
\* parse_intent does not fail: it returns a ParsedIntent with topic
\* "unknown", goal unknown and affective state neutral, and the risk flags
\* are those detected on the original text.
C20_UnparsableFallsBack ==
    (last.op = "parse_intent" /\ args.completion = Unparsable) =>
        /\ last.outcome = "returned"
        /\ last.result.original_text = args.text
        /\ last.result.topic = "unknown"
        /\ last.result.goal = "unknown"
        /\ last.result.affective_state = "neutral"
        /\ PII_DETECTED \in last.result.risk_flags
              <=> args.text \in QuestionsWithMyNameIs
        /\ ACADEMIC_INTEGRITY_CONCERN \in last.result.risk_flags
              <=> args.integrity_true
        /\ INAPPROPRIATE_CONTENT \in last.result.risk_flags
              <=> (~args.moderation.error /\ args.moderation.flagged)
        /\ SELF_HARM_CONCERN \in last.result.risk_flags
              <=> (~args.moderation.error /\ args.moderation.self_harm)

\* the extraction reply was unparsable and the risk detection flagged the
\* text for personal information and self-harm
C20_Witness ==
    /\ last.op = "parse_intent"
    /\ args.completion = Unparsable
    /\ last.outcome = "returned"
    /\ last.result.topic = "unknown"
    /\ {PII_DETECTED, SELF_HARM_CONCERN} \subseteq last.result.risk_flags

\* C21: a moderation-service error does not fail classification and counts
\* as "no flag" for the moderation check only: neither inappropriate_content
\* nor self_harm_concern is set, while academic_integrity_concern and
\* pii_detected are set exactly when the integrity check and the PII
\* heuristic find them.
C21_ModerationErrorIsNoFlag ==
    (last.op = "parse_intent" /\ args.moderation.error
        /\ args.completion # CompletionRaises) =>
        /\ last.outcome = "returned"
        /\ INAPPROPRIATE_CONTENT \notin last.result.risk_flags
        /\ SELF_HARM_CONCERN \notin last.result.risk_flags
        /\ ACADEMIC_INTEGRITY_CONCERN \in last.result.risk_flags
              <=> args.integrity_true
        /\ PII_DETECTED \in last.result.risk_flags
              <=> args.text \in QuestionsWithMyNameIs

\* the moderation call raised and both later checks flagged the text
C21_Witness ==
    /\ last.op = "parse_intent"
    /\ args.moderation.error
    /\ last.outcome = "returned"
    /\ last.result.risk_flags = {ACADEMIC_INTEGRITY_CONCERN, PII_DETECTED}

----------------------------------------------------------------------------
(* Failures of the collaborators, stage order and side effects *)

\* the invocations that have been started
Started == {p \in DOMAIN inv : inv[p].pc # "idle"}

\* C22: an infrastructure failure surfaces to the caller of
\* generate_personalized_response as a failure, never as a normal answer: an
\* invocation in which a store query, a completion call or the store write
\* raised has failed with that exception and has returned no answer; after a
\* failing store query no prompt was built from an empty result; after a
\* failing completion call no write-back was made.
C22_FailuresSurface ==
    \A p \in Started :
        LET calls == inv[p].calls
        IN  /\ inv[p].pc = "done" => calls.failed = {}
            /\ calls.failed # {} =>
                  /\ inv[p].pc = "failed"
                  /\ inv[p].reply \in {"StoreQueryError", "CompletionServiceError",
                                       "StoreWriteError"}
            /\ "store_query" \in calls.failed =>
                  /\ inv[p].reply = "StoreQueryError"
                  /\ calls.completions = 2
                  /\ calls.store_writes = 0
            /\ "completion" \in calls.failed =>
                  /\ inv[p].reply = "CompletionServiceError"
                  /\ calls.store_writes = 0
            /\ "store_write" \in calls.failed =>
                  inv[p].reply = "StoreWriteError"

\* the candidate retrieval raised while the index held a record of the student
C22_Witness ==
    \E p \in Started :
        /\ inv[p].pc = "failed"
        /\ inv[p].calls.failed = {"store_query"}
        /\ inv[p].calls.retrievals = 1
        /\ \E i \in 1..Len(store) : store[i].metadata["student_id"] = inv[p].student_id

\* the stages of generate_personalized_response in the order of its body
Stages ==
    << "consent_check", "intent_classify", "risk_gate", "retrieve", "cite",
       "prompt", "complete", "write_back", "done" >>

StageRank(pc) == CHOOSE i \in 1..Len(Stages) : Stages[i] = pc

\* C23: every execution of generate_personalized_response passes its stages
\* in the order consent check, intent classification, risk gate, retrieval,
\* citation, prompt, completion, write-back, done: a step of a running
\* invocation enters the next stage of that order, or returns from the risk
\* gate when risk flags were raised, or ends the invocation with the
\* exception of a collaborator; so no stage is entered twice or before its
\* predecessor, and the risk gate is the only early return.  An invocation
\* starts at the consent check.
C23_LinearStages ==
    [][\A p \in DOMAIN inv :
          inv'[p] # inv[p] =>
             IF Active(p)
             THEN \/ inv'[p].pc = "failed"
                  \/ StageRank(inv'[p].pc) = StageRank(inv[p].pc) + 1
                  \/ /\ inv[p].pc = "risk_gate"
                     /\ inv'[p].pc = "done"
                     /\ inv[p].intent.risk_flags # {}
             ELSE inv'[p].pc = "consent_check"]_vars

\* an invocation has passed every stage: it retrieved, completed three
\* times, wrote back and returned the answer
C23_Witness ==
    \E p \in Started :
        /\ inv[p].pc = "done"
        /\ inv[p].reply = AnswerText
        /\ inv[p].calls.difficulty_lookups = 1
        /\ inv[p].calls.completions = 3
        /\ inv[p].calls.store_writes = 1

\* C24: one invocation of generate_personalized_response issues at most one
\* store read for the difficulty lookup, at most one store read for
\* retrieval, at most one store write, at most one moderation call and at
\* most three completion calls; an invocation that was not refused and has
\* returned issued exactly one difficulty lookup, at most one retrieval,
\* exactly one store write, exactly one moderation call and between one and
\* three completion calls.
C24_SideEffects ==
    \A p \in Started :
        LET calls == inv[p].calls
        IN  /\ calls.difficulty_lookups <= 1
            /\ calls.retrievals <= 1
            /\ calls.store_writes <= 1
            /\ calls.moderations <= 1
            /\ calls.completions <= 3
            /\ (inv[p].pc = "done" /\ inv[p].risk_flags = {}) =>
                  /\ calls.difficulty_lookups = 1
                  /\ calls.retrievals \in {0, 1}
                  /\ calls.store_writes = 1
                  /\ calls.moderations = 1
                  /\ calls.completions \in 1..3

\* a non-refused invocation has returned after its retrieval, its moderation
\* call and its write-back
C24_Witness ==
    \E p \in Started :
        /\ inv[p].pc = "done"
        /\ inv[p].risk_flags = {}
        /\ inv[p].calls.retrievals = 1
        /\ inv[p].calls.moderations = 1
        /\ Len(store) >= 1

----------------------------------------------------------------------------
(* Concurrent invocations *)

\* the learning_interaction records in the index
Interactions(st) ==
    {i \in 1..Len(st) : st[i].metadata["memory_type"] = LEARNING_INTERACTION}

\* the invocations that have returned an answer after their write-back
Answered == {p \in Started : inv[p].pc = "done" /\ inv[p].risk_flags = {}}

\* C25: in every interleaving of two concurrent invocations of
\* generate_personalized_response for the same student and topic the race is
\* benign: every write-back is persisted as a record of its own (the index
\* holds as many learning_interaction records as invocations have returned
\* an answer), and the step that writes back appends one record, which
\* carries the difficulty that invocation read, and leaves every record
\* already stored as it was, so no write is lost or overwrites another.
C25_BenignRace ==
    /\ [](Cardinality(Interactions(store)) = Cardinality(Answered))
    /\ [][\A p \in DOMAIN inv :
             (inv[p].pc = "write_back" /\ inv'[p].pc = "done") =>
                /\ Len(store') = Len(store) + 1
                /\ SubSeq(store', 1, Len(store)) = store
                /\ store'[Len(store')].metadata["difficulty_level"] =
                       inv[p].assessed_difficulty]_vars

\* both invocations looked the difficulty up in the same index, holding the
\* student's notes, before either wrote back, and both have written back
C25_Witness ==
    /\ Answered = ConcurrentProcs
    /\ inv["p1"].calls.records_at_lookup = inv["p2"].calls.records_at_lookup
    /\ inv["p1"].calls.records_at_lookup >= 1
    /\ Cardinality(Interactions(store)) = 2

----------------------------------------------------------------------------
(* The size and the content of the retrieved list *)

\* a node without the score the re-ranking gave it
StoredPart(n) == [doc_id |-> n.doc_id, text |-> n.text, metadata |-> n.metadata, sim |-> n.sim]

\* how often the record x is in the list of nodes
Occurrences(nodes, x) == Cardinality({i \in 1..Len(nodes) : StoredPart(nodes[i]) = x})

\* the candidates that have a timestamp and reach the threshold
Survivors ==
    SelectSeq(last.result.candidates, LAMBDA c :
        HasTimestamp(c) /\ ExpectedScore(c) >= args.similarity_threshold)

\* C26: retrieve_student_context never pads: it returns at most `limit`
\* records out of at most 2 * limit candidates, which are records of the
\* store; a record is returned no more often than it is among the
\* candidates, and when fewer than `limit` candidates survive thresholding
\* the returned records are exactly those survivors.
C26_NeverPads ==
    (Retrieved /\ last.result.status = "ok") =>
        LET nodes == last.result.nodes
            candidates == last.result.candidates
        IN  /\ Len(nodes) <= args.limit
            /\ Len(candidates) <= 2 * args.limit
            /\ \A i \in 1..Len(candidates) :
                  Occurrences(candidates, StoredPart(candidates[i])) <=
                      Occurrences(MapNodes(store), StoredPart(candidates[i]))
            /\ \A i \in 1..Len(nodes) :
                  Occurrences(nodes, StoredPart(nodes[i])) <=
                      Occurrences(candidates, StoredPart(nodes[i]))
            /\ Len(Survivors) < args.limit =>
                  /\ Len(nodes) = Len(Survivors)
                  /\ \A i \in 1..Len(Survivors) :
                        Occurrences(nodes, StoredPart(Survivors[i])) =
                            Occurrences(Survivors, StoredPart(Survivors[i]))

\* the store returned `limit` candidates or more, fewer than `limit` of them
\* survived, and those were returned
C26_Witness ==
    /\ Retrieved
    /\ last.result.status = "ok"
    /\ Len(last.result.candidates) >= args.limit
    /\ Len(last.result.nodes) >= 1
    /\ Len(last.result.nodes) < args.limit

\* C27: every record returned by retrieve_student_context has a
\* difficulty_level within one step of the student's current difficulty and
\* within 1..10, has the requested subject when a subject is given, and has
\* one of the requested memory types when memory types are given.
C27_ReturnedPassFilters ==
    (Retrieved /\ last.result.status = "ok") =>
        LET current_difficulty ==
                GetStudentCurrentDifficulty(store, args.student.student_id,
                                            args.current_topic, args.subject)
        IN  \A i \in 1..Len(last.result.nodes) :
               LET m == last.result.nodes[i].metadata
               IN  /\ "difficulty_level" \in DOMAIN m
                   /\ m["difficulty_level"] >= current_difficulty - 1
                   /\ m["difficulty_level"] <= current_difficulty + 1
                   /\ m["difficulty_level"] \in 1..10
                   /\ args.subject # NoneVal =>
                         /\ "subject" \in DOMAIN m
                         /\ m["subject"] = args.subject
                   /\ args.memory_types # {} =>
                         /\ "memory_type" \in DOMAIN m
                         /\ m["memory_type"] \in args.memory_types

\* records are returned for a subject and a set of memory types while the
\* store holds a record of the student of a memory type that was not asked
\* for and one of a difficulty outside the window
C27_Witness ==
    /\ Retrieved
    /\ last.result.status = "ok"
    /\ last.result.nodes # <<>>
    /\ args.subject # NoneVal
    /\ args.memory_types # {}
    /\ \E i \in 1..Len(store) :
          /\ store[i].metadata["student_id"] = args.student.student_id
          /\ store[i].metadata["memory_type"] \notin args.memory_types
    /\ \E i \in 1..Len(store) :
          /\ store[i].metadata["student_id"] = args.student.student_id
          /\ store[i].metadata["difficulty_level"] \notin last.result.difficulty_range

----------------------------------------------------------------------------
(* The topic and the subject of an invocation *)

----------------------------------------------------------------------------
(* Core fields and extra metadata *)

\* the owner and filter fields of a record
CoreFields == {"student_id", "subject", "topic", "difficulty_level", "memory_type", "timestamp"}

\* C29 (as claimed): for every LearningContext passed to
\* store_learning_interaction, also one whose extra metadata has keys named
\* like core fields, the student_id, subject, topic, difficulty_level,
\* memory_type and timestamp metadata of the stored record are the fields of
\* the LearningContext: extra metadata never overrides them.
C29_CoreFieldsNotOverridden ==
    last.op = "store_learning_interaction" =>
        LET c == last.context
            d == store[Len(store)]
        IN  \A k \in CoreFields :
               /\ k \in DOMAIN d.metadata
               /\ d.metadata[k] = ScalarFields(c)[k]

----------------------------------------------------------------------------
(* The difficulty after write-backs *)

HistoryTopics == {"t1", "t2", "unknown"}

\* C30: write-back never changes a student's current difficulty: after any
\* number of calls of generate_personalized_response by one student, nothing
\* else writing, _get_student_current_difficulty gives for every topic what
\* it gave on the history before the first call (the default 3 where there
\* was no history), and every record written back carries that value for its
\* topic, never the initial 5 of assessed_difficulty in its place.
C30_WriteBackKeepsDifficulty ==
    /\ \A topic \in HistoryTopics :
          GetStudentCurrentDifficulty(store, "s1", topic, "sub1") =
              GetStudentCurrentDifficulty(args.history, "s1", topic, "sub1")
    /\ \A i \in (Len(args.history) + 1)..Len(store) :
          store[i].metadata["difficulty_level"] =
              GetStudentCurrentDifficulty(args.history, store[i].metadata["student_id"],
                                          store[i].metadata["topic"],
                                          store[i].metadata["subject"])

\* two calls have written back on a history of more matching records than
\* the lookup asks for; the second record is for a topic without history and
\* carries the default level
C30_Witness ==
    /\ Len(args.history) > difficulty_top_k
    /\ Len(store) = Len(args.history) + 2
    /\ store[Len(store)].metadata["topic"] = "t2"
    /\ store[Len(store)].metadata["difficulty_level"] = default_level
    /\ store[Len(store) - 1].metadata["topic"] = "t1"
    /\ \A p \in DOMAIN inv : inv[p].pc = "done"

====
